---------------------------- MODULE Spec2Model ----------------------------
(***************************************************************************)
(* Model of src/app.js: the client of the shift scheduling board.          *)
(*                                                                         *)
(* Strings are sequences of tokens.  A token is one character (a digit,    *)
(* "-", a blank) or an opaque word of letters, so that trimming, the       *)
(* array-index test of property keys and the code-unit comparison of       *)
(* Array.prototype.sort are computed and not assumed.  The empty string is *)
(* <<>>.                                                                   *)
(***************************************************************************)
EXTENDS Naturals, Sequences, FiniteSets, TLC

VARIABLES
    started,            \* has the DOMContentLoaded handler run
    employeeList,       \* <ul id="employee-list">: the displayed roster
    employeeSelect,     \* options of <select id="shift-employee"> after the blank one
    empForm,            \* fields of <form id="employee-form">
    shiftForm,          \* fields of <form id="shift-form">
    weekDate,           \* value of <input id="week-date">: the week anchor
    scheduleContainer,  \* content of #schedule-table-container: the published WeekView
    objectProto,        \* date-keyed properties put on Object.prototype by renderWeekTable
    objectFns,          \* date-keyed properties put on the functions Object.prototype holds
    alerts,             \* the messages alert() showed in the latest run of the script
    requests,           \* the fetch() calls in flight, in the order made
    overtaken,          \* for each call in flight: the later calls of its kind already shown
    shown,              \* the calls whose answers the roster and the container show
    srvEmployees,       \* the backend's employee table
    srvShifts,          \* the backend's shift table
    ops                 \* number of submissions and clicks of the operator so far

vars == <<started, employeeList, employeeSelect, empForm, shiftForm, weekDate,
          scheduleContainer, objectProto, objectFns, alerts, requests, overtaken, shown,
          srvEmployees, srvShifts, ops>>

-----------------------------------------------------------------------------
(* Bounds *)

\* longest list of shifts the aggregation is applied to in SpecAgg
MaxLen == 3


\* number of times the aggregation is applied in SpecAgg
MaxRenders == 2

\* number of submissions and clicks of the operator
MaxOps == 1

-----------------------------------------------------------------------------
(* Strings *)

\* null, where an object is expected
Null == [null |-> TRUE]

EmptyStr == <<>>

Digits == {"0", "1", "2", "3", "4", "5", "6", "7", "8", "9"}

DigitVal(c) ==
    CASE c = "0" -> 0 [] c = "1" -> 1 [] c = "2" -> 2 [] c = "3" -> 3
      [] c = "4" -> 4 [] c = "5" -> 5 [] c = "6" -> 6 [] c = "7" -> 7
      [] c = "8" -> 8 [] c = "9" -> 9

\* UTF-16 code unit of the characters that occur in dates
CharCode(c) == IF c = "-" THEN 45 ELSE 48 + DigitVal(c)

IsBlank(c) == c = " "

\* String.prototype.trim
RECURSIVE TrimLeft(_)
TrimLeft(s) ==
    IF s # <<>> /\ IsBlank(Head(s)) THEN TrimLeft(Tail(s)) ELSE s

RECURSIVE TrimRight(_)
TrimRight(s) ==
    IF s # <<>> /\ IsBlank(s[Len(s)]) THEN TrimRight(SubSeq(s, 1, Len(s) - 1)) ELSE s

\* mutant: the fields are read without trim()
Trim_Nothing(s) == s

Trim(s) == TrimRight(TrimLeft(s))

\* the comparison Array.prototype.sort makes without a comparator: by code units
RECURSIVE StrLess(_, _)
StrLess(a, b) ==
    IF b = <<>> THEN FALSE
    ELSE IF a = <<>> THEN TRUE
    ELSE IF Head(a) = Head(b) THEN StrLess(Tail(a), Tail(b))
    ELSE CharCode(Head(a)) < CharCode(Head(b))

RECURSIVE InsertSorted(_, _)
InsertSorted(x, s) ==
    IF s = <<>> THEN <<x>>
    ELSE IF StrLess(x, Head(s)) THEN <<x>> \o s
    ELSE <<Head(s)>> \o InsertSorted(x, Tail(s))

\* mutant: the dates are left in the order in which they were met
SortStrings_Unsorted(s) == s

RECURSIVE SortStrings(_)
SortStrings(s) ==
    IF s = <<>> THEN <<>> ELSE InsertSorted(Head(s), SortStrings(Tail(s)))

\* the largest array index, 2^32 - 2
MaxArrayIndex == <<"4", "2", "9", "4", "9", "6", "7", "2", "9", "4">>

\* a < b for two canonical decimal numerals: the shorter is the smaller, and
\* numerals of one length compare as strings
NumeralLess(a, b) ==
    \/ Len(a) < Len(b)
    \/ Len(a) = Len(b) /\ StrLess(a, b)

\* a property key that is an array index: the canonical decimal form of an
\* integer in 0 .. 2^32 - 2
IsArrayIndex(k) ==
    /\ k # <<>>
    /\ \A i \in 1..Len(k) : k[i] \in Digits
    /\ Len(k) > 1 => k[1] # "0"
    /\ ~NumeralLess(MaxArrayIndex, k)

Range(s) == {s[i] : i \in 1..Len(s)}

Has(f, k) == k \in DOMAIN f

Put(f, k, v) == (k :> v) @@ f


-----------------------------------------------------------------------------
(* Data *)

\* dates are ISO 8601 strings, YYYY-MM-DD
Jan(dd) == <<"2", "0", "2", "4", "-", "0", "1", "-">> \o dd

Jan01 == Jan(<<"0", "1">>)
Jan02 == Jan(<<"0", "2">>)
Jan08 == Jan(<<"0", "8">>)

\* the label of the row of open shifts, "(A\c{c}{\i}k shift)" in the source
OpenShiftKey == <<"(Acik", " ", "shift)">>

\* the property of every object that reads and writes its prototype
ProtoAccessor == <<"__proto__">>

\* the methods every object inherits from Object.prototype
InheritedFns ==
    {<<"constructor">>, <<"toString">>, <<"valueOf">>, <<"toLocaleString">>,
     <<"hasOwnProperty">>, <<"isPrototypeOf">>, <<"propertyIsEnumerable">>}

\* full names of the employees of the aggregation's inputs; none is a date
FullNames ==
    {<<"Ada">>, <<"2">>, <<"1", "0">>, <<"constructor">>, ProtoAccessor, OpenShiftKey}

AggDates == {Jan01, Jan02}

\* the employee field of a shift of a response: null, or the embedded employee
Embedded(names) == {Null} \cup [full_name : names]

\* the shifts a response can hold at position i
ShiftsAt(i, names, dates) == [id : {i}, date : dates, employee : Embedded(names)]

\* the lists of n shifts
RECURSIVE ShiftLists(_, _, _)
ShiftLists(n, names, dates) ==
    IF n = 0 THEN {<<>>}
    ELSE {Append(l, s) : l \in ShiftLists(n - 1, names, dates),
                         s \in ShiftsAt(n, names, dates)}

ShiftListsUpTo(n, names, dates) == UNION {ShiftLists(k, names, dates) : k \in 0..n}

-----------------------------------------------------------------------------
(* renderWeekTable *)

\* the container before anything is rendered into it
BlankContainer == [kind |-> "blank", dates |-> <<>>, rows |-> <<>>]

\* the container holding the text "Bu hafta icin kayitli vardiya yok."
NoShiftsContainer == [kind |-> "text", dates |-> <<>>, rows |-> <<>>]

TableContainer(dates, rows) == [kind |-> "table", dates |-> dates, rows |-> rows]

\* an array held in a date-keyed property: its own items, or the very array
\* that Object.prototype holds under the same date
OwnArray(items) == [alias |-> FALSE, items |-> items]
ProtoArray == [alias |-> TRUE, items |-> <<>>]

EmpName(s) == IF s.employee # Null THEN s.employee.full_name ELSE OpenShiftKey

\* what byEmployee[empName] evaluates to: an own property is a row object,
\* otherwise the lookup continues in Object.prototype
Lookup(rows, empName) ==
    IF Has(rows, empName) THEN "row"
    ELSE IF empName = ProtoAccessor THEN "Object.prototype"
    ELSE IF empName \in InheritedFns THEN "function"
    ELSE "undefined"

\* one call of the callback of shifts.forEach
GroupShift(acc, s) ==
    LET empName == EmpName(s)
        d       == s.date
        found   == Lookup(acc.rows, empName)
        target  == IF found = "undefined" THEN "row" ELSE found
        keys    == IF found = "undefined" THEN Append(acc.keys, empName) ELSE acc.keys
        rows    == IF found = "undefined" THEN Put(acc.rows, empName, <<>>) ELSE acc.rows
        obj     == CASE target = "row" -> rows[empName]
                     [] target = "function" ->
                            IF Has(acc.fns, empName) THEN acc.fns[empName] ELSE <<>>
                     [] OTHER -> <<>>
        \* target[s.date] || []
        array   == IF target = "Object.prototype" THEN ProtoArray
                   ELSE IF Has(obj, d) THEN obj[d]
                   ELSE IF Has(acc.proto, d) THEN ProtoArray
                   ELSE OwnArray(<<>>)
        pushed  == IF array.alias THEN array ELSE OwnArray(Append(array.items, s))
        proto   == IF array.alias
                   THEN Put(acc.proto, d,
                            Append(IF Has(acc.proto, d) THEN acc.proto[d] ELSE <<>>, s))
                   ELSE acc.proto
    IN  [keys  |-> keys,
         rows  |-> IF target = "row" THEN Put(rows, empName, Put(obj, d, pushed)) ELSE rows,
         fns   |-> IF target = "function"
                   THEN Put(acc.fns, empName, Put(obj, d, pushed)) ELSE acc.fns,
         proto |-> proto,
         dates |-> IF d \in Range(acc.dates) THEN acc.dates ELSE Append(acc.dates, d)]

RECURSIVE GroupShifts(_, _)
GroupShifts(acc, shifts) ==
    IF shifts = <<>> THEN acc
    ELSE GroupShifts(GroupShift(acc, Head(shifts)), Tail(shifts))

RECURSIVE InsertIndex(_, _)
InsertIndex(k, s) ==
    IF s = <<>> THEN <<k>>
    ELSE IF NumeralLess(k, Head(s)) THEN <<k>> \o s
    ELSE <<Head(s)>> \o InsertIndex(k, Tail(s))

RECURSIVE SortIndices(_)
SortIndices(s) ==
    IF s = <<>> THEN <<>> ELSE InsertIndex(Head(s), SortIndices(Tail(s)))

IsNotArrayIndex(k) == ~IsArrayIndex(k)

\* the order in which Object.entries lists the own keys of an object whose
\* properties were created in the order of keys
ObjectEntriesOrder(keys) ==
    SortIndices(SelectSeq(keys, IsArrayIndex)) \o SelectSeq(keys, IsNotArrayIndex)

\* shiftsByDate[d] || []
CellList(shiftsByDate, d, proto) ==
    IF Has(shiftsByDate, d)
    THEN IF shiftsByDate[d].alias THEN proto[d] ELSE shiftsByDate[d].items
    ELSE IF Has(proto, d) THEN proto[d]
    ELSE <<>>

TableRow(empName, shiftsByDate, dates, proto) ==
    [empName |-> empName,
     cells   |-> [i \in 1..Len(dates) |-> CellList(shiftsByDate, dates[i], proto)]]

\* renderWeekTable(shifts) past its test of shifts.length: the grouping, and
\* the table built from it
RenderTable(shifts, proto, fns) ==
    LET acc   == GroupShifts([keys |-> <<>>, rows |-> <<>>, fns |-> fns,
                              proto |-> proto, dates |-> <<>>], shifts)
        dates == SortStrings(acc.dates)
        order == ObjectEntriesOrder(acc.keys)
    IN  [container |->
             TableContainer(dates,
                 [i \in 1..Len(order) |->
                     TableRow(order[i], acc.rows[order[i]], dates, acc.proto)]),
         proto |-> acc.proto,
         fns   |-> acc.fns]

\* mutant: an empty list is rendered as a table like any other
RenderWeekTable_NoEmptyCase(shifts, proto, fns) == RenderTable(shifts, proto, fns)

\* renderWeekTable(shifts), called with Object.prototype and its functions
\* holding proto and fns: the container, and what they hold afterwards
RenderWeekTable(shifts, proto, fns) ==
    IF shifts = <<>>
    THEN [container |-> NoShiftsContainer, proto |-> proto, fns |-> fns]
    ELSE RenderTable(shifts, proto, fns)

-----------------------------------------------------------------------------
(* The page as the browser hands it to the script *)

EmptyEmpForm == [name |-> <<>>, role |-> <<>>]

EmptyShiftForm ==
    [date |-> <<>>, start |-> <<>>, end |-> <<>>, position |-> <<>>, employee |-> <<>>]

\* a call of fetch(), named by the handler that made it and the date it asks for
Call(origin, date) == [origin |-> origin, date |-> date]

NoCall == [call |-> Call("", <<>>), overtakenBy |-> {}]

NoOps == [employeeForm |-> 0, shiftForm |-> 0, loadWeekBtn |-> 0, renders |-> 0]

Gestures == ops.employeeForm + ops.shiftForm + ops.loadWeekBtn

PageInit ==
    /\ started = FALSE
    /\ employeeList = <<>>
    /\ employeeSelect = <<>>
    /\ empForm = EmptyEmpForm
    /\ shiftForm = EmptyShiftForm
    /\ weekDate = <<>>
    /\ scheduleContainer = BlankContainer
    /\ objectProto = <<>>
    /\ objectFns = <<>>
    /\ alerts = <<>>
    /\ requests = <<>>
    /\ overtaken = <<>>
    /\ shown = [roster |-> NoCall, week |-> NoCall]
    /\ ops = NoOps

-----------------------------------------------------------------------------
(* What the operator types and what the backend holds at the start *)

MainDates == {Jan01, Jan08}

Ada == [id |-> 1, full_name |-> <<"Ada">>, role |-> <<"Kasiyer">>]

\* the backend's tables when the page is opened: one employee, and one shift
\* of hers in the second week of January
Databases ==
    {[employees |-> <<Ada>>,
      shifts |-> <<[id |-> 1, date |-> Jan08, employee |-> [full_name |-> Ada.full_name]]>>]}

\* new Date().toISOString().slice(0, 10)
Today == Jan08

\* what the operator types into the employee form
EmpDrafts ==
    {[name |-> <<" ", "Bora", " ">>, role |-> <<"Garson">>],
     [name |-> <<" ">>, role |-> <<"Garson">>],
     [name |-> <<"Bora">>, role |-> <<" ", " ">>]}

ValidShiftDrafts ==
    [date : MainDates, start : {<<"09:00">>}, end : {<<"17:00">>},
     position : {<<" ", "Kasa">>}, employee : {<<>>, <<1>>, <<2>>}]

\* what the operator types into the shift form: every field filled, or one left out
ShiftDrafts ==
    ValidShiftDrafts \cup
    {[date |-> <<>>, start |-> <<"09:00">>, end |-> <<"17:00">>,
      position |-> <<"Kasa">>, employee |-> <<>>],
     [date |-> Jan01, start |-> <<>>, end |-> <<"17:00">>,
      position |-> <<"Kasa">>, employee |-> <<>>],
     [date |-> Jan01, start |-> <<"09:00">>, end |-> <<>>,
      position |-> <<"Kasa">>, employee |-> <<>>],
     [date |-> Jan01, start |-> <<"09:00">>, end |-> <<"17:00">>,
      position |-> <<" ">>, employee |-> <<>>]}

-----------------------------------------------------------------------------
(* The messages of alert() *)

MsgEmployeesNotLoaded == "Calisan listesi alinamadi"
MsgEmployeeRequired == "Ad soyad ve rol zorunludur."
MsgEmployeeNotAdded == "Calisan eklenemedi"
MsgShiftRequired == "Tarih, saatler ve pozisyon zorunludur."
MsgShiftNotSaved == "Vardiya kaydedilemedi"
MsgPickDate == "Lutfen bir tarih sec."
MsgWeekNotLoaded == "Haftalik program alinamadi"

\* err.message of the TypeError with which fetch() rejects: the browser's text
MsgFetchRejected == "Failed to fetch"

-----------------------------------------------------------------------------
(* fetch() *)

GetEmployees == "GET /employees/"
PostEmployee == "POST /employees/"
PostShift == "POST /shifts/"
GetWeek == "GET /schedule/week/"

\* a call of fetch(): what is asked, the handler that awaits it, what is sent,
\* and how far the call is: "sent", then "ok" (res.ok), "notOk" (!res.ok) or
\* "rejected" (the promise rejects); it is in flight until the script has run on that
Request(kind, origin, date, full_name, role, employee_id) ==
    [kind |-> kind, origin |-> origin, date |-> date, full_name |-> full_name,
     role |-> role, employee_id |-> employee_id, status |-> "sent", body |-> <<>>]

Answered(i) ==
    /\ i \in 1..Len(requests)
    /\ requests[i].status \in {"ok", "notOk", "rejected"}

Remove(s, i) == SubSeq(s, 1, i - 1) \o SubSeq(s, i + 1, Len(s))

\* fetch() is called for req
Fetch(req) ==
    /\ requests' = Append(requests, req)
    /\ overtaken' = Append(overtaken, {})

\* call i settles and the handler calls fetch() for the requests in more
Settle(i, more) ==
    /\ requests' = Remove(requests, i) \o more
    /\ overtaken' = Remove(overtaken, i) \o [k \in 1..Len(more) |-> {}]

\* call i settles, its answer is put on display (as the roster or as the
\* week) and the handler calls fetch() for the requests in more
SettleShown(i, more) ==
    LET r == requests[i]
        c == Call(r.origin, r.date)
        marked == [k \in 1..Len(requests) |->
                      IF k < i /\ requests[k].kind = r.kind
                      THEN overtaken[k] \cup {c} ELSE overtaken[k]]
    IN  /\ requests' = Remove(requests, i) \o more
        /\ overtaken' = Remove(marked, i) \o [k \in 1..Len(more) |-> {}]
        /\ shown' = IF r.kind = "GET /employees/"
                    THEN [shown EXCEPT !.roster = [call |-> c, overtakenBy |-> overtaken[i]]]
                    ELSE [shown EXCEPT !.week = [call |-> c, overtakenBy |-> overtaken[i]]]

\* a run of the script that calls alert(msg), and calls it once
Alert(msg) == alerts' = <<msg>>

\* a run of the script that does not call alert()
NoAlert == alerts' = <<>>

\* err.message in the catch block of a handler whose own error text is msg
ErrMessage(r, msg) == IF r.status = "rejected" THEN MsgFetchRejected ELSE msg

-----------------------------------------------------------------------------
(* The backend, as section 6 of the specification describes it *)

\* the week of a date: 2024-01-01 is a Monday
WeekOf(date) ==
    LET day == 10 * DigitVal(date[9]) + DigitVal(date[10])
    IN  (day - 1) \div 7

SameWeek(shifts, date) ==
    LET InWeek(s) == WeekOf(s.date) = WeekOf(date)
    IN  SelectSeq(shifts, InWeek)

\* the employee object the backend embeds in a shift
EmbeddedEmployee(employees, employee_id) ==
    IF employee_id = <<>> \/ employee_id[1] \notin 1..Len(employees) THEN Null
    ELSE [full_name |-> employees[employee_id[1]].full_name]

\* the backend answers call i with a success status
ServerOk(i) ==
    /\ i \in 1..Len(requests)
    /\ requests[i].status = "sent"
    /\ LET r == requests[i]
       IN  CASE r.kind = GetEmployees ->
                    /\ requests' = [requests EXCEPT ![i].status = "ok",
                                                    ![i].body = srvEmployees]
                    /\ UNCHANGED <<srvEmployees, srvShifts>>
             [] r.kind = PostEmployee ->
                    /\ srvEmployees' = Append(srvEmployees,
                           [id |-> Len(srvEmployees) + 1,
                            full_name |-> r.full_name, role |-> r.role])
                    /\ requests' = [requests EXCEPT ![i].status = "ok"]
                    /\ UNCHANGED srvShifts
             [] r.kind = PostShift ->
                    /\ srvShifts' = Append(srvShifts,
                           [id |-> Len(srvShifts) + 1, date |-> r.date,
                            employee |-> EmbeddedEmployee(srvEmployees, r.employee_id)])
                    /\ requests' = [requests EXCEPT ![i].status = "ok"]
                    /\ UNCHANGED srvEmployees
             [] r.kind = GetWeek ->
                    /\ requests' = [requests EXCEPT ![i].status = "ok",
                                                    ![i].body = SameWeek(srvShifts, r.date)]
                    /\ UNCHANGED <<srvEmployees, srvShifts>>
    /\ UNCHANGED <<started, employeeList, employeeSelect, empForm, shiftForm, weekDate,
                   scheduleContainer, objectProto, objectFns, alerts, overtaken, shown,
                   ops>>

\* the backend answers call i with a status that is no success
ServerNotOk(i) ==
    /\ i \in 1..Len(requests)
    /\ requests[i].status = "sent"
    /\ requests' = [requests EXCEPT ![i].status = "notOk"]
    /\ UNCHANGED <<started, employeeList, employeeSelect, empForm, shiftForm, weekDate,
                   scheduleContainer, objectProto, objectFns, alerts, overtaken, shown,
                   ops, srvEmployees, srvShifts>>

\* call i does not reach the backend
NetworkFails(i) ==
    /\ i \in 1..Len(requests)
    /\ requests[i].status = "sent"
    /\ requests' = [requests EXCEPT ![i].status = "rejected"]
    /\ UNCHANGED <<started, employeeList, employeeSelect, empForm, shiftForm, weekDate,
                   scheduleContainer, objectProto, objectFns, alerts, overtaken, shown,
                   ops, srvEmployees, srvShifts>>

-----------------------------------------------------------------------------
(* The handlers *)

\* the listener of DOMContentLoaded, up to the first await of loadEmployees
DOMContentLoaded ==
    /\ ~started
    /\ started' = TRUE
    /\ Fetch(Request(GetEmployees, "initialize", <<>>, <<>>, <<>>, <<>>))
    /\ NoAlert
    /\ UNCHANGED <<employeeList, employeeSelect, empForm, shiftForm, weekDate,
                   scheduleContainer, objectProto, objectFns, shown, ops,
                   srvEmployees, srvShifts>>

\* renderEmployeeList(data)
RenderEmployeeList(employees) ==
    [i \in 1..Len(employees) |->
        [full_name |-> employees[i].full_name, role |-> employees[i].role]]

\* mutant: the options of the select are not removed before the new ones are added
FillEmployeeSelect_Appends(employees) ==
    employeeSelect \o
    [i \in 1..Len(employees) |->
        [value |-> <<employees[i].id>>,
         full_name |-> employees[i].full_name, role |-> employees[i].role]]

\* fillEmployeeSelect(data): the options after the blank one
FillEmployeeSelect(employees) ==
    [i \in 1..Len(employees) |->
        [value |-> <<employees[i].id>>,
         full_name |-> employees[i].full_name, role |-> employees[i].role]]

\* mutant: the listener of DOMContentLoaded goes on only if the roster was loaded
AfterLoadEmployees_OnlyIfLoaded(r) ==
    IF r.origin = "initialize" /\ r.status = "ok"
    THEN [weekDate |-> Today,
          fetch |-> <<Request(GetWeek, "initialize", Today, <<>>, <<>>, <<>>)>>]
    ELSE [weekDate |-> weekDate, fetch |-> <<>>]

\* mutant: the week is loaded by loadEmployees itself, whoever called it
AfterLoadEmployees_Always(r) ==
    [weekDate |-> Today,
     fetch |-> <<Request(GetWeek, "initialize", Today, <<>>, <<>>, <<>>)>>]

\* what the handler that awaited loadEmployees does once it has returned: the
\* listener of DOMContentLoaded sets the week date to today and calls
\* loadWeekSchedule, the employee form does nothing more
AfterLoadEmployees(r) ==
    IF r.origin = "initialize"
    THEN [weekDate |-> Today,
          fetch |-> <<Request(GetWeek, "initialize", Today, <<>>, <<>>, <<>>)>>]
    ELSE [weekDate |-> weekDate, fetch |-> <<>>]

\* mutant: loadEmployees throws its error again after reporting it, and the
\* catch block of the employee form that awaited it reports it once more
EmployeesLoaded_Rethrows(i) ==
    /\ Answered(i)
    /\ requests[i].kind = GetEmployees
    /\ LET r == requests[i]
           after == AfterLoadEmployees(r)
       IN  /\ IF r.status = "ok"
              THEN /\ employeeList' = RenderEmployeeList(r.body)
                   /\ employeeSelect' = FillEmployeeSelect(r.body)
                   /\ shiftForm' = [shiftForm EXCEPT !.employee = <<>>]
                   /\ NoAlert
                   /\ SettleShown(i, after.fetch)
              ELSE /\ alerts' = IF r.origin = "employee-form"
                                THEN <<ErrMessage(r, MsgEmployeesNotLoaded),
                                       ErrMessage(r, MsgEmployeesNotLoaded)>>
                                ELSE <<ErrMessage(r, MsgEmployeesNotLoaded)>>
                   /\ Settle(i, after.fetch)
                   /\ UNCHANGED <<employeeList, employeeSelect, shiftForm, shown>>
           /\ weekDate' = after.weekDate
    /\ UNCHANGED <<started, empForm, scheduleContainer, objectProto, objectFns, ops,
                   srvEmployees, srvShifts>>

\* mutant: an answer is dropped when a roster load made later has been shown
EmployeesLoaded_Fenced(i) ==
    /\ Answered(i)
    /\ requests[i].kind = GetEmployees
    /\ LET r == requests[i]
           after == AfterLoadEmployees(r)
       IN  /\ IF r.status = "ok" /\ overtaken[i] = {}
              THEN /\ employeeList' = RenderEmployeeList(r.body)
                   /\ employeeSelect' = FillEmployeeSelect(r.body)
                   /\ shiftForm' = [shiftForm EXCEPT !.employee = <<>>]
                   /\ NoAlert
                   /\ SettleShown(i, after.fetch)
              ELSE /\ IF r.status = "ok" THEN NoAlert
                      ELSE Alert(ErrMessage(r, MsgEmployeesNotLoaded))
                   /\ Settle(i, after.fetch)
                   /\ UNCHANGED <<employeeList, employeeSelect, shiftForm, shown>>
           /\ weekDate' = after.weekDate
    /\ UNCHANGED <<started, empForm, scheduleContainer, objectProto, objectFns, ops,
                   srvEmployees, srvShifts>>

\* loadEmployees from the answer to its fetch() on, and its caller after it
EmployeesLoaded(i) ==
    /\ Answered(i)
    /\ requests[i].kind = GetEmployees
    /\ LET r == requests[i]
           after == AfterLoadEmployees(r)
       IN  /\ IF r.status = "ok"
              THEN /\ employeeList' = RenderEmployeeList(r.body)
                   /\ employeeSelect' = FillEmployeeSelect(r.body)
                   /\ shiftForm' = [shiftForm EXCEPT !.employee = <<>>]
                   /\ NoAlert
                   /\ SettleShown(i, after.fetch)
              ELSE /\ Alert(ErrMessage(r, MsgEmployeesNotLoaded))
                   /\ Settle(i, after.fetch)
                   /\ UNCHANGED <<employeeList, employeeSelect, shiftForm, shown>>
           /\ weekDate' = after.weekDate
    /\ UNCHANGED <<started, empForm, scheduleContainer, objectProto, objectFns, ops,
                   srvEmployees, srvShifts>>

\* the submit listener of the employee form, up to its await: the operator
\* has typed draft into the fields
SubmitEmployee(draft) ==
    /\ started
    /\ Gestures < MaxOps
    /\ ops' = [ops EXCEPT !.employeeForm = @ + 1]
    /\ empForm' = draft
    /\ LET full_name == Trim(draft.name)
           role      == Trim(draft.role)
       IN  IF full_name = <<>> \/ role = <<>>
           THEN /\ Alert(MsgEmployeeRequired)
                /\ UNCHANGED <<requests, overtaken>>
           ELSE /\ Fetch(Request(PostEmployee, "employee-form", <<>>, full_name, role, <<>>))
                /\ NoAlert
    /\ UNCHANGED <<started, employeeList, employeeSelect, shiftForm, weekDate,
                   scheduleContainer, objectProto, objectFns, shown,
                   srvEmployees, srvShifts>>

\* mutant: the form is reset before the status of the answer is looked at
EmployeePosted_ResetsFirst(i) ==
    /\ Answered(i)
    /\ requests[i].kind = PostEmployee
    /\ LET r == requests[i]
       IN  /\ empForm' = EmptyEmpForm
           /\ IF r.status = "ok"
              THEN /\ Settle(i, <<Request(GetEmployees, "employee-form",
                                          <<>>, <<>>, <<>>, <<>>)>>)
                   /\ NoAlert
              ELSE /\ Alert(ErrMessage(r, MsgEmployeeNotAdded))
                   /\ Settle(i, <<>>)
    /\ UNCHANGED <<started, employeeList, employeeSelect, shiftForm, weekDate,
                   scheduleContainer, objectProto, objectFns, shown, ops,
                   srvEmployees, srvShifts>>

\* mutant: a POST that failed is sent again
EmployeePosted_Retries(i) ==
    /\ Answered(i)
    /\ requests[i].kind = PostEmployee
    /\ LET r == requests[i]
       IN  IF r.status = "ok"
           THEN /\ empForm' = EmptyEmpForm
                /\ Settle(i, <<Request(GetEmployees, "employee-form",
                                       <<>>, <<>>, <<>>, <<>>)>>)
                /\ NoAlert
           ELSE /\ Alert(ErrMessage(r, MsgEmployeeNotAdded))
                /\ Settle(i, <<Request(PostEmployee, "employee-form",
                                       <<>>, r.full_name, r.role, <<>>)>>)
                /\ UNCHANGED empForm
    /\ UNCHANGED <<started, employeeList, employeeSelect, shiftForm, weekDate,
                   scheduleContainer, objectProto, objectFns, shown, ops,
                   srvEmployees, srvShifts>>

\* the submit listener of the employee form from the answer to its POST on,
\* up to the await in loadEmployees
EmployeePosted(i) ==
    /\ Answered(i)
    /\ requests[i].kind = PostEmployee
    /\ LET r == requests[i]
       IN  IF r.status = "ok"
           THEN /\ empForm' = EmptyEmpForm
                /\ Settle(i, <<Request(GetEmployees, "employee-form",
                                       <<>>, <<>>, <<>>, <<>>)>>)
                /\ NoAlert
           ELSE /\ Alert(ErrMessage(r, MsgEmployeeNotAdded))
                /\ Settle(i, <<>>)
                /\ UNCHANGED empForm
    /\ UNCHANGED <<started, employeeList, employeeSelect, shiftForm, weekDate,
                   scheduleContainer, objectProto, objectFns, shown, ops,
                   srvEmployees, srvShifts>>

\* the submit listener of the shift form, up to its await: the operator has
\* typed draft into the fields and picked an option of the employee select
SubmitShift(draft) ==
    /\ started
    /\ Gestures < MaxOps
    /\ draft.employee \in {<<>>} \cup {employeeSelect[k].value : k \in 1..Len(employeeSelect)}
    /\ ops' = [ops EXCEPT !.shiftForm = @ + 1]
    /\ shiftForm' = draft
    /\ LET position == Trim(draft.position)
       IN  IF draft.date = <<>> \/ draft.start = <<>> \/ draft.end = <<>> \/ position = <<>>
           THEN /\ Alert(MsgShiftRequired)
                /\ UNCHANGED <<requests, overtaken>>
           ELSE /\ Fetch(Request(PostShift, "shift-form", draft.date, <<>>, <<>>,
                                 draft.employee))
                /\ NoAlert
    /\ UNCHANGED <<started, employeeList, employeeSelect, empForm, weekDate,
                   scheduleContainer, objectProto, objectFns, shown,
                   srvEmployees, srvShifts>>

\* mutant: the week of the submitted shift is loaded, whatever the week date
WeekAnchor_ShiftDate(current, dateVal) == dateVal

\* document.getElementById("week-date").value || dateVal
WeekAnchor(current, dateVal) == IF current # <<>> THEN current ELSE dateVal

\* mutant: the week is loaded again whether the POST succeeded or not
ShiftPosted_ReloadsAlways(i) ==
    /\ Answered(i)
    /\ requests[i].kind = PostShift
    /\ LET r == requests[i]
           anchor == WeekAnchor(weekDate, r.date)
       IN  /\ IF r.status = "ok"
              THEN shiftForm' = EmptyShiftForm /\ NoAlert
              ELSE Alert(ErrMessage(r, MsgShiftNotSaved)) /\ UNCHANGED shiftForm
           /\ weekDate' = anchor
           /\ Settle(i, <<Request(GetWeek, "shift-form", anchor, <<>>, <<>>, <<>>)>>)
    /\ UNCHANGED <<started, employeeList, employeeSelect, empForm,
                   scheduleContainer, objectProto, objectFns, shown, ops,
                   srvEmployees, srvShifts>>

\* the submit listener of the shift form from the answer to its POST on, up
\* to the await in loadWeekSchedule
ShiftPosted(i) ==
    /\ Answered(i)
    /\ requests[i].kind = PostShift
    /\ LET r == requests[i]
           anchor == WeekAnchor(weekDate, r.date)
       IN  IF r.status = "ok"
           THEN /\ shiftForm' = EmptyShiftForm
                /\ weekDate' = anchor
                /\ Settle(i, <<Request(GetWeek, "shift-form", anchor, <<>>, <<>>, <<>>)>>)
                /\ NoAlert
           ELSE /\ Alert(ErrMessage(r, MsgShiftNotSaved))
                /\ Settle(i, <<>>)
                /\ UNCHANGED <<shiftForm, weekDate>>
    /\ UNCHANGED <<started, employeeList, employeeSelect, empForm,
                   scheduleContainer, objectProto, objectFns, shown, ops,
                   srvEmployees, srvShifts>>

\* the click listener of the load button, up to the await in loadWeekSchedule:
\* the operator has set the week date to val
ClickLoadWeek(val) ==
    /\ started
    /\ Gestures < MaxOps
    /\ ops' = [ops EXCEPT !.loadWeekBtn = @ + 1]
    /\ weekDate' = val
    /\ IF val = <<>>
       THEN /\ Alert(MsgPickDate)
            /\ UNCHANGED <<requests, overtaken>>
       ELSE /\ Fetch(Request(GetWeek, "load-week-btn", val, <<>>, <<>>, <<>>))
            /\ NoAlert
    /\ UNCHANGED <<started, employeeList, employeeSelect, empForm, shiftForm,
                   scheduleContainer, objectProto, objectFns, shown,
                   srvEmployees, srvShifts>>

\* mutant: an answer is dropped when a load made later has been rendered
WeekLoaded_Fenced(i) ==
    /\ Answered(i)
    /\ requests[i].kind = GetWeek
    /\ LET r == requests[i]
           t == RenderWeekTable(r.body, objectProto, objectFns)
       IN  IF r.status = "ok" /\ overtaken[i] = {}
           THEN /\ scheduleContainer' = t.container
                /\ objectProto' = t.proto
                /\ objectFns' = t.fns
                /\ NoAlert
                /\ SettleShown(i, <<>>)
           ELSE /\ IF r.status = "ok" THEN NoAlert
                   ELSE Alert(ErrMessage(r, MsgWeekNotLoaded))
                /\ Settle(i, <<>>)
                /\ UNCHANGED <<scheduleContainer, objectProto, objectFns, shown>>
    /\ UNCHANGED <<started, employeeList, employeeSelect, empForm, shiftForm, weekDate,
                   ops, srvEmployees, srvShifts>>

\* mutant: the container is not emptied first, so that what is on display
\* stays and only a blank container takes the table
WeekLoaded_KeepsDisplay(i) ==
    /\ Answered(i)
    /\ requests[i].kind = GetWeek
    /\ LET r == requests[i]
           t == RenderWeekTable(r.body, objectProto, objectFns)
       IN  IF r.status = "ok"
           THEN /\ scheduleContainer' = IF scheduleContainer = BlankContainer
                                        THEN t.container ELSE scheduleContainer
                /\ objectProto' = t.proto
                /\ objectFns' = t.fns
                /\ NoAlert
                /\ SettleShown(i, <<>>)
           ELSE /\ Alert(ErrMessage(r, MsgWeekNotLoaded))
                /\ Settle(i, <<>>)
                /\ UNCHANGED <<scheduleContainer, objectProto, objectFns, shown>>
    /\ UNCHANGED <<started, employeeList, employeeSelect, empForm, shiftForm, weekDate,
                   ops, srvEmployees, srvShifts>>

\* mutant: the container is emptied before the answer is looked at, so that
\* a load that fails leaves it blank
WeekLoaded_BlanksOnFailure(i) ==
    /\ Answered(i)
    /\ requests[i].kind = GetWeek
    /\ LET r == requests[i]
           t == RenderWeekTable(r.body, objectProto, objectFns)
       IN  IF r.status = "ok"
           THEN /\ scheduleContainer' = t.container
                /\ objectProto' = t.proto
                /\ objectFns' = t.fns
                /\ NoAlert
                /\ SettleShown(i, <<>>)
           ELSE /\ Alert(ErrMessage(r, MsgWeekNotLoaded))
                /\ Settle(i, <<>>)
                /\ scheduleContainer' = BlankContainer
                /\ UNCHANGED <<objectProto, objectFns, shown>>
    /\ UNCHANGED <<started, employeeList, employeeSelect, empForm, shiftForm, weekDate,
                   ops, srvEmployees, srvShifts>>

\* loadWeekSchedule from the answer to its fetch() on
WeekLoaded(i) ==
    /\ Answered(i)
    /\ requests[i].kind = GetWeek
    /\ LET r == requests[i]
           t == RenderWeekTable(r.body, objectProto, objectFns)
       IN  IF r.status = "ok"
           THEN /\ scheduleContainer' = t.container
                /\ objectProto' = t.proto
                /\ objectFns' = t.fns
                /\ NoAlert
                /\ SettleShown(i, <<>>)
           ELSE /\ Alert(ErrMessage(r, MsgWeekNotLoaded))
                /\ Settle(i, <<>>)
                /\ UNCHANGED <<scheduleContainer, objectProto, objectFns, shown>>
    /\ UNCHANGED <<started, employeeList, employeeSelect, empForm, shiftForm, weekDate,
                   ops, srvEmployees, srvShifts>>

-----------------------------------------------------------------------------
(* The page and the backend together *)

Init ==
    /\ PageInit
    /\ \E db \in Databases :
          /\ srvEmployees = db.employees
          /\ srvShifts = db.shifts

Next ==
    \/ DOMContentLoaded
    \/ \E draft \in EmpDrafts : SubmitEmployee(draft)
    \/ \E draft \in ShiftDrafts : SubmitShift(draft)
    \/ \E val \in MainDates \cup {<<>>} : ClickLoadWeek(val)
    \/ \E i \in 1..Len(requests) : ServerOk(i)
    \/ \E i \in 1..Len(requests) : ServerNotOk(i)
    \/ \E i \in 1..Len(requests) : NetworkFails(i)
    \/ \E i \in 1..Len(requests) : EmployeesLoaded(i)
    \/ \E i \in 1..Len(requests) : EmployeePosted(i)
    \/ \E i \in 1..Len(requests) : ShiftPosted(i)
    \/ \E i \in 1..Len(requests) : WeekLoaded(i)

Spec == Init /\ [][Next]_vars

-----------------------------------------------------------------------------
(* The aggregation alone: renderWeekTable applied to every list of shifts *)

InitAgg ==
    /\ PageInit
    /\ srvEmployees = <<>>
    /\ srvShifts \in ShiftListsUpTo(MaxLen, FullNames, AggDates)

\* renderWeekTable(srvShifts), in the page as earlier calls left it
AggRender ==
    /\ ops.renders < MaxRenders
    /\ LET r == RenderWeekTable(srvShifts, objectProto, objectFns)
       IN  /\ scheduleContainer' = r.container
           /\ objectProto' = r.proto
           /\ objectFns' = r.fns
    /\ ops' = [ops EXCEPT !.renders = @ + 1]
    /\ UNCHANGED <<started, employeeList, employeeSelect, empForm, shiftForm, weekDate,
                   alerts, requests, overtaken, shown, srvEmployees, srvShifts>>

NextAgg == AggRender

SpecAgg == InitAgg /\ [][NextAgg]_vars

-----------------------------------------------------------------------------
(* Properties of the aggregation, stated on the table that was rendered *)

RECURSIVE SumLen(_)
SumLen(ss) == IF ss = <<>> THEN 0 ELSE Len(Head(ss)) + SumLen(Tail(ss))

RECURSIVE Flatten(_)
Flatten(ss) == IF ss = <<>> THEN <<>> ELSE Head(ss) \o Flatten(Tail(ss))

\* all the cells of a table, row after row
Cells(c) == Flatten([i \in 1..Len(c.rows) |-> c.rows[i].cells])

RowNames(c) == [i \in 1..Len(c.rows) |-> c.rows[i].empName]

\* number of times shift s is displayed in row r, column j of table c
Shown(c, r, j, s) == Cardinality({k \in 1..Len(c.rows[r].cells[j]) : c.rows[r].cells[j][k] = s})

\* the places of table c where shift s is displayed
Places(c, s) ==
    {p \in (1..Len(c.rows)) \X (1..Len(c.dates)) : Shown(c, p[1], p[2], s) > 0}

\* the keys of a list of shifts, each once, in the order of first appearance
RECURSIVE FirstAppearance(_, _)
FirstAppearance(seen, shifts) ==
    IF shifts = <<>> THEN seen
    ELSE FirstAppearance(
             IF EmpName(Head(shifts)) \in Range(seen) THEN seen
             ELSE Append(seen, EmpName(Head(shifts))),
             Tail(shifts))

IsAscending(dates) == \A i \in 1..(Len(dates) - 1) : StrLess(dates[i], dates[i + 1])

\* SpecAgg: the table on display is renderWeekTable(srvShifts)
AggRendered == ops.renders > 0

\* C1: every shift of the list is displayed exactly once, in the row of its
\* employee key and the column of its date, so that the lengths of the
\* buckets of all rows and dates add up to the length of the list
C1_EachShiftInExactlyOneBucket ==
    (AggRendered /\ srvShifts # <<>>) =>
        /\ scheduleContainer.kind = "table"
        /\ SumLen(Cells(scheduleContainer)) = Len(srvShifts)
        /\ \A i \in 1..Len(srvShifts) :
              \E p \in Places(scheduleContainer, srvShifts[i]) :
                  /\ Places(scheduleContainer, srvShifts[i]) = {p}
                  /\ Shown(scheduleContainer, p[1], p[2], srvShifts[i]) = 1
                  /\ scheduleContainer.rows[p[1]].empName = EmpName(srvShifts[i])
                  /\ scheduleContainer.dates[p[2]] = srvShifts[i].date

\* C2: the column dates are the distinct dates of the list, each once, in
\* ascending order of strings
C2_ColumnDatesAreDistinctDatesSorted ==
    AggRendered =>
        /\ Range(scheduleContainer.dates) = {srvShifts[i].date : i \in 1..Len(srvShifts)}
        /\ IsAscending(scheduleContainer.dates)
        /\ \A i \in 1..Len(scheduleContainer.rows) :
              Len(scheduleContainer.rows[i].cells) = Len(scheduleContainer.dates)

\* C2 witness: a list whose dates arrive in descending order and repeat
C2_Witness ==
    /\ AggRendered
    /\ Len(srvShifts) = 3
    /\ srvShifts[1].date = Jan02
    /\ srvShifts[2].date = Jan01
    /\ srvShifts[3].date = Jan02
    /\ scheduleContainer.dates = <<Jan01, Jan02>>

\* C3: the rows are in the order in which the employee keys first appear in
\* the list, whatever the full names are, the open shifts sharing one row
C3_RowsInFirstAppearanceOrder ==
    AggRendered => RowNames(scheduleContainer) = FirstAppearance(<<>>, srvShifts)

-----------------------------------------------------------------------------
(* Steps of Spec, told from the two states of the step *)

\* the step is a run of the handler that awaited call i, which has been answered
Settles(i) ==
    /\ Answered(i)
    /\ Len(requests') \in {Len(requests) - 1, Len(requests)}
    /\ SubSeq(requests', 1, Len(requests) - 1) = Remove(requests, i)
    /\ Len(requests') = Len(requests) => requests'[Len(requests')].status = "sent"

\* the calls of fetch() made in a step in which a call settles
FollowUps == SubSeq(requests', Len(requests), Len(requests'))

Failed(r) == r.status \in {"notOk", "rejected"}

\* the step is a submission of the employee form, of the shift form, a click
EmployeeFormSubmitted == ops'.employeeForm = ops.employeeForm + 1
ShiftFormSubmitted == ops'.shiftForm = ops.shiftForm + 1
LoadWeekClicked == ops'.loadWeekBtn = ops.loadWeekBtn + 1

\* nothing but blanks: empty once trimmed
AllBlank(s) == \A k \in 1..Len(s) : s[k] = " "

EmployeeDraftIncomplete(f) == AllBlank(f.name) \/ AllBlank(f.role)

ShiftDraftIncomplete(f) ==
    f.date = <<>> \/ f.start = <<>> \/ f.end = <<>> \/ AllBlank(f.position)

\* C4: a week load that succeeds with an empty list of shifts leaves the
\* container in the "no shifts" state, without rows and without columns, and
\* shows no notification
C4_EmptyWeekIsNoShiftsState ==
    [][\A i \in 1..Len(requests) :
          (Settles(i) /\ requests[i].kind = GetWeek /\ requests[i].status = "ok"
                      /\ requests[i].body = <<>>)
          => /\ scheduleContainer'.kind = "text"
             /\ scheduleContainer'.rows = <<>>
             /\ scheduleContainer'.dates = <<>>
             /\ alerts' = <<>>]_vars

\* C4 witness: the answer to the load of a week without shifts is on display
C4_Witness ==
    /\ shown.week.call.date = Jan01
    /\ SameWeek(srvShifts, Jan01) = <<>>
    /\ scheduleContainer.kind = "text"
    /\ alerts = <<>>

\* C5: the submission of an employee draft whose full name or role is empty
\* once trimmed, or of a shift draft without date, start, end or position,
\* calls fetch() in no state and shows exactly one notification; no POST in
\* flight lacks a required field
C5_IncompleteDraftNeverSent ==
    [][/\ (EmployeeFormSubmitted /\ EmployeeDraftIncomplete(empForm'))
          => (requests' = requests /\ Len(alerts') = 1)
       /\ (ShiftFormSubmitted /\ ShiftDraftIncomplete(shiftForm'))
          => (requests' = requests /\ Len(alerts') = 1)
       /\ \A k \in 1..Len(requests') :
             /\ requests'[k].kind = PostEmployee
                => ~AllBlank(requests'[k].full_name) /\ ~AllBlank(requests'[k].role)
             /\ requests'[k].kind = PostShift => requests'[k].date # <<>>]_vars

\* C5 witness: a draft whose position is blank was submitted while a call was
\* in flight, and one notification is on screen
C5_Witness ==
    /\ AllBlank(shiftForm.position)
    /\ shiftForm.date # <<>>
    /\ alerts = <<MsgShiftRequired>>
    /\ requests # <<>>

\* C6: a shift submission that fails, before the POST or by it, leaves the
\* container as it was and makes no call for the week
C6_FailedShiftSubmissionKeepsView ==
    [][/\ (ShiftFormSubmitted /\ ShiftDraftIncomplete(shiftForm'))
          => (scheduleContainer' = scheduleContainer /\ requests' = requests)
       /\ \A i \in 1..Len(requests) :
             (Settles(i) /\ requests[i].kind = PostShift /\ Failed(requests[i]))
             => /\ scheduleContainer' = scheduleContainer
                /\ requests' = Remove(requests, i)]_vars

\* C6 witness: the POST of a shift has failed while a table is on display
C6_Witness ==
    /\ alerts \in {<<MsgShiftNotSaved>>, <<MsgFetchRejected>>}
    /\ ops.shiftForm > 0
    /\ shiftForm # EmptyShiftForm
    /\ ~ShiftDraftIncomplete(shiftForm)
    /\ scheduleContainer.kind = "table"
    /\ requests = <<>>

\* C7: the answer to a week load is rendered whenever it arrives, whether or
\* not a load made later has been rendered already, and no other call in
\* flight is cancelled by it: the container shows the answer that arrived last
C7_LastWeekAnswerWins ==
    [][\A i \in 1..Len(requests) :
          (Settles(i) /\ requests[i].kind = GetWeek /\ requests[i].status = "ok")
          => /\ scheduleContainer' =
                    RenderWeekTable(requests[i].body, objectProto, objectFns).container
             /\ requests' = Remove(requests, i)]_vars

\* C7 witness: both loads have settled and the container shows the answer to
\* the load made first, for another date than the load made after it
C7_Witness ==
    /\ \E c \in shown.week.overtakenBy : c.date # shown.week.call.date
    /\ \A k \in 1..Len(requests) : requests[k].kind # GetWeek
    /\ scheduleContainer.kind = "table"
    /\ weekDate = Jan01

\* C8 as claimed: during initialize a failed roster load is reported and no
\* week is loaded after it, and a failed schedule load is reported and leaves
\* no roster on display
C8_InitFailureLeavesUiEmpty ==
    [][\A i \in 1..Len(requests) :
          (Settles(i) /\ requests[i].origin = "initialize" /\ Failed(requests[i]))
          => /\ Len(alerts') = 1
             /\ requests[i].kind = GetEmployees => requests' = Remove(requests, i)
             /\ requests[i].kind = GetWeek
                => employeeList' = <<>> /\ employeeSelect' = <<>>]_vars

\* C8 amended: during initialize each failed load is reported by one
\* notification and changes neither the roster nor the container; the two
\* loads are independent: after a failed roster load the week date is set to
\* today and the week load is made all the same, and a failed schedule load
\* leaves the roster that is on display
C8_InitLoadsAreIndependent ==
    [][\A i \in 1..Len(requests) :
          (Settles(i) /\ requests[i].origin = "initialize" /\ Failed(requests[i]))
          => /\ Len(alerts') = 1
             /\ employeeList' = employeeList
             /\ employeeSelect' = employeeSelect
             /\ scheduleContainer' = scheduleContainer
             /\ requests[i].kind = GetEmployees
                => /\ weekDate' = Today
                   /\ Len(FollowUps) = 1
                   /\ FollowUps[1].kind = GetWeek
                   /\ FollowUps[1].date = Today
             /\ requests[i].kind = GetWeek => requests' = Remove(requests, i)]_vars

\* C8 witness: the roster load of initialize failed and the week of today is
\* on display all the same
C8_Witness ==
    /\ Gestures = 0
    /\ employeeList = <<>>
    /\ shown.roster = NoCall
    /\ shown.week.call = Call("initialize", Today)
    /\ scheduleContainer.kind = "table"

\* C9: when the POST of an employee succeeds the form is cleared and the
\* roster is loaded again; when it fails the error is reported, the form
\* keeps its fields and the roster is not loaded
C9_SubmitEmployeeOutcome ==
    [][\A i \in 1..Len(requests) :
          (Settles(i) /\ requests[i].kind = PostEmployee)
          => IF requests[i].status = "ok"
             THEN /\ empForm' = EmptyEmpForm
                  /\ Len(FollowUps) = 1
                  /\ FollowUps[1].kind = GetEmployees
                  /\ alerts' = <<>>
             ELSE /\ Len(alerts') = 1
                  /\ empForm' = empForm
                  /\ requests' = Remove(requests, i)]_vars

\* C9 witness: a POST has succeeded: the form is empty and the roster is being loaded for it
C9_Witness ==
    /\ ops.employeeForm > 0
    /\ empForm = EmptyEmpForm
    /\ \E k \in 1..Len(requests) :
          requests[k].kind = GetEmployees /\ requests[k].origin = "employee-form"

\* C10: when the POST of a shift succeeds the form is cleared, the week date
\* becomes the date of the shift only if it was empty at that moment and
\* keeps its value otherwise, and one week load is made, for the week date;
\* when the POST fails the form and the week date keep their values
C10_SubmitShiftOutcome ==
    [][\A i \in 1..Len(requests) :
          (Settles(i) /\ requests[i].kind = PostShift)
          => IF requests[i].status = "ok"
             THEN /\ shiftForm' = EmptyShiftForm
                  /\ weekDate = <<>> => weekDate' = requests[i].date
                  /\ weekDate # <<>> => weekDate' = weekDate
                  /\ Len(FollowUps) = 1
                  /\ FollowUps[1].kind = GetWeek
                  /\ FollowUps[1].date = weekDate'
             ELSE /\ shiftForm' = shiftForm
                  /\ weekDate' = weekDate]_vars

\* C10 witness: a shift was created for another date than the week date, and
\* the week is being loaded for the week date
C10_Witness ==
    /\ shiftForm = EmptyShiftForm
    /\ Len(srvShifts) > 1
    /\ srvShifts[Len(srvShifts)].date # weekDate
    /\ \E k \in 1..Len(requests) :
          /\ requests[k].kind = GetWeek
          /\ requests[k].origin = "shift-form"
          /\ requests[k].date = weekDate

-----------------------------------------------------------------------------
(* The view and the backend *)

\* a POST of a shift has succeeded since the page was opened
ShiftCreated == Len(srvShifts) > Len((CHOOSE db \in Databases : TRUE).shifts)

\* nothing is in flight
Quiet == started /\ requests = <<>>

\* the table of the shifts the backend holds now for the week of the week date
CurrentWeekView ==
    RenderWeekTable(SameWeek(srvShifts, weekDate), objectProto, objectFns).container

\* C11 as claimed: after a shift submission that succeeded, once nothing is
\* in flight any more, the container shows the shifts the backend holds for
\* the week of the week date, whatever was in flight at the submission
C11_ViewFollowsServerAfterShift ==
    (Quiet /\ ShiftCreated /\ weekDate # <<>>) => scheduleContainer = CurrentWeekView

\* C11 amended: after a shift submission that succeeded and is the only
\* action of the operator on the schedule since the page was opened, once
\* nothing is in flight and the answer rendered last is the one to the load
\* of that submission, made for the week date, the container shows the
\* shifts the backend holds for the week of the week date
C11_ViewFollowsServerAfterLoneShift ==
    (/\ Quiet
     /\ ShiftCreated
     /\ ops.shiftForm = 1
     /\ ops.loadWeekBtn = 0
     /\ shown.week.call = Call("shift-form", weekDate))
    => scheduleContainer = CurrentWeekView

\* C11 witness: the shift created lies in the week of the week date and the
\* table rendered last, for the load of its submission, displays it
C11_Witness ==
    /\ Quiet
    /\ ShiftCreated
    /\ ops.shiftForm = 1
    /\ shown.week.call = Call("shift-form", weekDate)
    /\ Len(SameWeek(srvShifts, weekDate)) = 2
    /\ SumLen(Cells(scheduleContainer)) = 2

-----------------------------------------------------------------------------
(* Failures and notifications *)

\* the backend or the network settles a call: no script runs in the step
ServerStep ==
    /\ Len(requests') = Len(requests)
    /\ \E i \in 1..Len(requests) :
          /\ requests[i].status = "sent"
          /\ requests'[i].status # "sent"
          /\ requests' = [requests EXCEPT ![i].status = requests'[i].status,
                                          ![i].body = requests'[i].body]

\* C12: every run of the script in which a call or the validation of a
\* draft fails shows exactly one notification, in whichever handler, and a
\* run in which nothing fails shows none: no failure is swallowed or left
\* unhandled, none is reported twice, also not the failure of the roster
\* load made for the employee form
C12_OneNotificationPerFailure ==
    [][/\ \A i \in 1..Len(requests) :
             Settles(i) => Len(alerts') = IF Failed(requests[i]) THEN 1 ELSE 0
       /\ EmployeeFormSubmitted
          => Len(alerts') = IF EmployeeDraftIncomplete(empForm') THEN 1 ELSE 0
       /\ ShiftFormSubmitted
          => Len(alerts') = IF ShiftDraftIncomplete(shiftForm') THEN 1 ELSE 0
       /\ LoadWeekClicked => Len(alerts') = IF weekDate' = <<>> THEN 1 ELSE 0
       /\ ServerStep => alerts' = alerts]_vars

\* C12 witness: the employee was created and the roster load made for the
\* form has failed last: its one notification is on screen and the roster
\* is still the one of initialize
C12_Witness ==
    /\ Quiet
    /\ Len(srvEmployees) = 2
    /\ empForm = EmptyEmpForm
    /\ shown.roster.call.origin = "initialize"
    /\ alerts \in {<<MsgEmployeesNotLoaded>>, <<MsgFetchRejected>>}
    /\ scheduleContainer.kind = "table"

-----------------------------------------------------------------------------
(* Retries *)

\* the step calls fetch() at most once, and if it does, for a call of kind
AtMostOneCall(kind) ==
    /\ Len(requests') \in {Len(requests), Len(requests) + 1}
    /\ SubSeq(requests', 1, Len(requests)) = requests
    /\ Len(requests') > Len(requests) => requests'[Len(requests')].kind = kind

\* the one call a handler makes after a call of kind has succeeded
NextCall(r) ==
    CASE r.kind = PostEmployee -> <<GetEmployees>>
      [] r.kind = PostShift -> <<GetWeek>>
      [] r.kind = GetEmployees /\ r.origin = "initialize" -> <<GetWeek>>
      [] OTHER -> <<>>

FollowUpKinds == [k \in 1..Len(FollowUps) |-> FollowUps[k].kind]

\* a submission or a click made one call at most, of its own kind, and the
\* backend and the network make none
CallsOnlyByGestures ==
    /\ EmployeeFormSubmitted => AtMostOneCall(PostEmployee)
    /\ ShiftFormSubmitted => AtMostOneCall(PostShift)
    /\ LoadWeekClicked => AtMostOneCall(GetWeek)
    /\ ServerStep => Len(requests') = Len(requests)

-----------------------------------------------------------------------------
(* Partial failures *)

\* a POST of an employee has succeeded since the page was opened
EmployeeCreated == Len(srvEmployees) > Len((CHOOSE db \in Databases : TRUE).employees)

\* C14: when the load that follows a POST that succeeded fails, nothing is
\* rolled back and that failure alone is reported: after the POST of an
\* employee, the employee stays in the backend, the form stays as it was
\* left, the roster on display keeps its content and one notification is
\* shown; after the POST of a shift, the shift stays in the backend and the
\* container keeps the view it had
C14_PartialFailureNotRolledBack ==
    [][\A i \in 1..Len(requests) :
          (Settles(i) /\ Failed(requests[i])) =>
              /\ (requests[i].kind = GetEmployees /\ requests[i].origin = "employee-form")
                 => /\ EmployeeCreated
                    /\ srvEmployees' = srvEmployees
                    /\ empForm' = empForm
                    /\ employeeList' = employeeList
                    /\ employeeSelect' = employeeSelect
                    /\ alerts' = <<ErrMessage(requests[i], MsgEmployeesNotLoaded)>>
                    /\ requests' = Remove(requests, i)
              /\ (requests[i].kind = GetWeek /\ requests[i].origin = "shift-form")
                 => /\ ShiftCreated
                    /\ srvShifts' = srvShifts
                    /\ shiftForm' = shiftForm
                    /\ scheduleContainer' = scheduleContainer
                    /\ weekDate' = weekDate
                    /\ alerts' = <<ErrMessage(requests[i], MsgWeekNotLoaded)>>
                    /\ requests' = Remove(requests, i)]_vars

\* C14 witness: a shift was created in the week on display and the load made
\* for its submission has failed: the form is empty, the notification of the
\* load is on screen and the table is the one of initialize, without the shift
C14_Witness ==
    /\ Quiet
    /\ ShiftCreated
    /\ shiftForm = EmptyShiftForm
    /\ alerts \in {<<MsgWeekNotLoaded>>, <<MsgFetchRejected>>}
    /\ shown.week.call = Call("initialize", Today)
    /\ weekDate = Today
    /\ Len(SameWeek(srvShifts, weekDate)) = 2
    /\ SumLen(Cells(scheduleContainer)) = 1

-----------------------------------------------------------------------------
(* The text of the notifications *)

\* the fixed text the handler that awaits a call of kind throws when it fails
OperationMessage(kind) ==
    CASE kind = GetEmployees -> MsgEmployeesNotLoaded
      [] kind = PostEmployee -> MsgEmployeeNotAdded
      [] kind = PostShift -> MsgShiftNotSaved
      [] kind = GetWeek -> MsgWeekNotLoaded

\* C15: the notification of a call that failed is the fixed text of the
\* operation that failed, when the backend answers with a status that is no
\* success and also when the call does not reach it; the text of the
\* underlying error is never shown
C15_FixedMessagePerOperation ==
    [][\A i \in 1..Len(requests) :
          (Settles(i) /\ Failed(requests[i]))
          => alerts' = <<OperationMessage(requests[i].kind)>>]_vars

-----------------------------------------------------------------------------
(* The roster *)

\* the roster and the options as loadEmployees builds them from one answer
RosterOf(body) == [list |-> RenderEmployeeList(body), select |-> FillEmployeeSelect(body)]

\* C16: the answer to a roster load is shown whenever it arrives, whether or
\* not a roster load made later has been shown already, and the other loads
\* in flight stay in flight: the roster on display is the answer that
\* arrived last, also when its load was made first and knows nothing of the
\* employee created since
C16_LastRosterAnswerWins ==
    [][\A i \in 1..Len(requests) :
          (Settles(i) /\ requests[i].kind = GetEmployees /\ requests[i].status = "ok")
          => /\ employeeList' = RosterOf(requests[i].body).list
             /\ employeeSelect' = RosterOf(requests[i].body).select
             /\ \A k \in 1..Len(requests) :
                   (k # i /\ requests[k].kind = GetEmployees)
                   => \E j \in 1..Len(requests') : requests'[j] = requests[k]]_vars

\* C16 witness: both roster loads have settled, the one of initialize after
\* the one made for the employee form, and the roster on display lacks the
\* employee that was created
C16_Witness ==
    /\ \A k \in 1..Len(requests) : requests[k].kind # GetEmployees
    /\ shown.roster.call.origin = "initialize"
    /\ Call("employee-form", <<>>) \in shown.roster.overtakenBy
    /\ Len(srvEmployees) = 2
    /\ Len(employeeList) = 1

-----------------------------------------------------------------------------
(* Order within a bucket, and the row of the open shifts *)

\* the place of shift s in the list of shifts
IndexIn(shifts, s) == CHOOSE i \in 1..Len(shifts) : shifts[i] = s

\* the shifts of cell are shifts of the list, in the order of the list
InListOrder(cell, shifts) ==
    \A k \in 1..Len(cell) :
        /\ cell[k] \in Range(shifts)
        /\ \A l \in (k + 1)..Len(cell) :
              cell[k] # cell[l] => IndexIn(shifts, cell[k]) < IndexIn(shifts, cell[l])

\* C17: in every bucket of the table, the cell of a row and a date, the
\* shifts are displayed in the order in which the list holds them
C17_BucketKeepsListOrder ==
    AggRendered =>
        \A r \in 1..Len(scheduleContainer.rows) :
            \A j \in 1..Len(scheduleContainer.rows[r].cells) :
                InListOrder(scheduleContainer.rows[r].cells[j], srvShifts)

\* the shifts of the list that have no employee
IsOpen(s) == s.employee = Null

\* C18: the row of the open shifts displays the shifts without an employee
\* and no others: every shift in it is open, whatever the full names of the
\* employees are, and every open shift of the list is in it
C18_SentinelRowHoldsOpenShiftsOnly ==
    (AggRendered /\ srvShifts # <<>>) =>
        /\ \A r \in 1..Len(scheduleContainer.rows) :
              scheduleContainer.rows[r].empName = OpenShiftKey
              => \A j \in 1..Len(scheduleContainer.rows[r].cells) :
                    \A k \in 1..Len(scheduleContainer.rows[r].cells[j]) :
                        IsOpen(scheduleContainer.rows[r].cells[j][k])
        /\ \A i \in 1..Len(srvShifts) :
              IsOpen(srvShifts[i])
              => \E p \in Places(scheduleContainer, srvShifts[i]) :
                    scheduleContainer.rows[p[1]].empName = OpenShiftKey

-----------------------------------------------------------------------------
(* The two views of the roster *)

\* the list and the options are built from one and the same answer: the
\* employees the backend held at some moment
RosterViewsAgree ==
    \E n \in 0..Len(srvEmployees) :
        /\ employeeList = RosterOf(SubSeq(srvEmployees, 1, n)).list
        /\ employeeSelect = RosterOf(SubSeq(srvEmployees, 1, n)).select

\* C19: in every state, however the roster loads and their answers
\* interleave, the employee list and the options of the select are built
\* from the same answer, and a roster load that fails changes neither
C19_ListAndSelectFromSameAnswer ==
    /\ []RosterViewsAgree
    /\ [][\A i \in 1..Len(requests) :
             (Settles(i) /\ requests[i].kind = GetEmployees /\ Failed(requests[i]))
             => (employeeList' = employeeList /\ employeeSelect' = employeeSelect)]_vars

\* C19 witness: the answer to the load made for the employee form is on
\* display, in the list and in the select, while the load of initialize is
\* still in flight
C19_Witness ==
    /\ shown.roster.call.origin = "employee-form"
    /\ Len(employeeList) = 2
    /\ Len(employeeSelect) = 2
    /\ \E k \in 1..Len(requests) :
          requests[k].kind = GetEmployees /\ requests[k].origin = "initialize"

-----------------------------------------------------------------------------
(* The roster side and the schedule side *)

ScheduleSideUnchanged ==
    /\ weekDate' = weekDate
    /\ scheduleContainer' = scheduleContainer
    /\ \A k \in (Len(requests) + 1)..Len(requests') : requests'[k].kind # GetWeek

RosterUnchanged ==
    /\ employeeList' = employeeList
    /\ employeeSelect' = employeeSelect

\* C20: the submission of an employee and the roster load that follows it,
\* whether they succeed or fail, change neither the week date nor the
\* container and call for no week; a week load and the submission of a
\* shift never change the roster on display
C20_RosterAndScheduleAreSeparate ==
    [][/\ EmployeeFormSubmitted => ScheduleSideUnchanged
       /\ (ShiftFormSubmitted \/ LoadWeekClicked) => RosterUnchanged
       /\ \A i \in 1..Len(requests) :
             Settles(i) =>
                 /\ requests[i].origin = "employee-form"
                    => /\ weekDate' = weekDate
                       /\ scheduleContainer' = scheduleContainer
                       /\ \A k \in 1..Len(FollowUps) : FollowUps[k].kind # GetWeek
                 /\ requests[i].kind \in {PostShift, GetWeek} => RosterUnchanged]_vars

\* C20 witness: an employee was created and the roster loaded again shows
\* two employees, while the week date and the table are those of initialize
C20_Witness ==
    /\ Quiet
    /\ shown.roster.call.origin = "employee-form"
    /\ Len(employeeList) = 2
    /\ shown.week.call = Call("initialize", Today)
    /\ weekDate = Today
    /\ scheduleContainer.kind = "table"

=============================================================================
